---- MODULE Spec2Model ----
(***************************************************************************)
(* tinymio: a readiness-based reactor core.  One thread owns the Poll and  *)
(* calls poll(); other threads hold Registrators minted from that Poll and *)
(* call register() and close_loop().  The kernel readiness queue (epoll on *)
(* linux, kqueue on macos) is modelled by its documented contract: the     *)
(* interest list, the readiness of the sockets, and the wakeup source.     *)
(* Every atomic access to shared state (the AtomicBool, one syscall on the *)
(* queue) is one step of the thread that makes it; the thread-local code   *)
(* before an access belongs to the step of that access.                    *)
(***************************************************************************)
EXTENDS Integers, Sequences, FiniteSets, TLC

(* ---------------------------- bounds ----------------------------------- *)
NumThreads == 2
NumSockets == 2
MaxToken == 1
MaxCalls == 2
MaxPolls == 2
MaxCapacity == 2
MaxReady == 3

Threads == 1..NumThreads
Sockets == 1..NumSockets
Tokens == 0..MaxToken

(* ------------------------ program constants ---------------------------- *)
WRITABLE == 1
READABLE == 2
EPOLL_MAXEVENTS == 1024
TEST_CAPACITY == 1024
WAKE_TOKEN == 0

Backends == {"linux", "macos"}

\* io::ErrorKind of the errors the wait can fail with: EINTR, EINVAL, and
\* EBADF / EFAULT.
ErrorKinds == {"Interrupted", "InvalidInput", "Uncategorized"}

\* Option<i32>
None == [some |-> FALSE, val |-> 0]
Some(n) == [some |-> TRUE, val |-> n]
TimeoutArgs == {None, Some(-1), Some(0), Some(200)}

\* Timeouts and buffer capacities given to a Selector that is used directly.
SelectTimeoutArgs == TimeoutArgs \cup {Some(-1500), Some(1500)}
Capacities == (0..MaxCapacity) \cup {TEST_CAPACITY}

\* The two interest sets the public API can build (lib.rs has no BitOr).
InterestArgs == {READABLE, WRITABLE}

is_readable(i) == ((i \div READABLE) % 2) # 0
is_writable(i) == ((i \div WRITABLE) % 2) # 0

VARIABLES
    backend,        \* which cfg(target_os) module is compiled in
    is_poll_dead,   \* Arc<AtomicBool> shared by Poll and every Registrator
    interest,       \* kernel queue: per socket, its registration
    wake,           \* kernel queue: number of armed wakeup sources
    readable,       \* per socket: unread data is pending
    alive,          \* the Poll and its Selector exist (the queue handle is
                    \* open)
    closes,         \* history: number of close() calls on the queue handle
    cap,            \* capacity of the poller's Events buffer
    events,         \* the poller's Events buffer
    delivered,      \* history: the events the last backend wait of poll stored
    retried,        \* history: the current poll call has called select again
    ppc,            \* poller: position inside Poll::poll
    parg,           \* poller: timeout_ms argument of the running / last poll
    ptimeout,       \* poller: the normalised timeout of the running poll
    presult,        \* poller: what the last poll returned
    pn,             \* poller: n of the last Ok(n)
    pkind,          \* poller: io::ErrorKind of the error the last poll
                    \*         returned ("none": no error)
    sres,           \* history: how the last select call of the running /
                    \*          last poll ended: "ok" or the error's kind
                    \*          ("none": select not yet called)
    polls,          \* number of poll calls started
    pdeadAtStart,   \* history: flag value when the running/last poll started
    hasReg,         \* per thread: it holds a Registrator
    rpc,            \* per thread: position inside register / close_loop
    rsock, rtok, rint,  \* per thread: arguments of the running register
    rdead,          \* history, per thread: its running call started with
                    \*          the flag set
    rrearm,         \* history, per thread: its running register asks
                    \*          READABLE for a socket whose event poll had
                    \*          already returned
    calls,          \* number of register / close_loop calls started
    last,           \* history: the register / close_loop call that returned
                    \*          last: what it was, what it returned, whether
                    \*          it started with the flag set, reached the
                    \*          queue, won the flag, was a re-arm
    casWins,        \* history: number of false->true transitions
    injected,       \* history: number of wakeup events put in the queue
    fired,          \* history: events the kernel delivered per socket since
                    \*          its last successful register
    regs,           \* history: successful registers per socket and token
    fires,          \* history: events the kernel delivered, per socket and id
    oks,            \* history: events returned with Ok, per socket and id
    sel             \* a Selector::select call made directly on a Selector:
                    \* its arguments, what it hands to the backend wait and
                    \* how it ends

kernelVars == <<interest, wake, readable>>
pollVars == <<cap, events, delivered, retried, ppc, parg, ptimeout, presult, pn, pkind, sres, polls, pdeadAtStart>>
regVars == <<hasReg, rpc, rsock, rtok, rint, rdead, rrearm, calls, last>>
handleVars == <<alive, closes>>
histVars == <<casWins, injected, fired, regs, fires, oks>>
vars == <<sel, backend, is_poll_dead, handleVars, kernelVars, pollVars, regVars, histVars>>

NoInterest == [state |-> "none", token |-> 0]

NoCall ==
    [op |-> "none", interests |-> 0, res |-> "none", dead |-> FALSE,
     submitted |-> FALSE, won |-> FALSE, rearm |-> FALSE]

NoSelect ==
    [pc |-> "idle", timeout |-> None, ready |-> 0, epoll_timeout |-> 0,
     kevent_null |-> FALSE, kevent_timeout |-> [tv_sec |-> 0, v_nsec |-> 0],
     maxevents |-> 0, res |-> "none", len |-> 0]

\* Poll::new and a fresh, empty kernel queue.
Fresh ==
    /\ sel = NoSelect
    /\ backend \in Backends
    /\ is_poll_dead = FALSE
    /\ alive = TRUE
    /\ closes = 0
    /\ interest = [s \in Sockets |-> NoInterest]
    /\ wake = 0
    /\ readable = [s \in Sockets |-> FALSE]
    /\ events = <<>>
    /\ delivered = <<>>
    /\ retried = FALSE
    /\ ppc = "idle"
    /\ parg = None
    /\ ptimeout = None
    /\ presult = "none"
    /\ pn = 0
    /\ pkind = "none"
    /\ sres = "none"
    /\ polls = 0
    /\ pdeadAtStart = FALSE
    /\ hasReg = [t \in Threads |-> FALSE]
    /\ rpc = [t \in Threads |-> "idle"]
    /\ rsock = [t \in Threads |-> 1]
    /\ rtok = [t \in Threads |-> 0]
    /\ rint = [t \in Threads |-> READABLE]
    /\ rdead = [t \in Threads |-> FALSE]
    /\ rrearm = [t \in Threads |-> FALSE]
    /\ calls = 0
    /\ last = NoCall
    /\ casWins = 0
    /\ injected = 0
    /\ fired = [s \in Sockets |-> 0]
    /\ regs = [s \in Sockets |-> [k \in Tokens |-> 0]]
    /\ fires = [s \in Sockets |-> [k \in Tokens |-> 0]]
    /\ oks = [s \in Sockets |-> [k \in Tokens |-> 0]]

\* The poller's buffer is Events::with_capacity(1024), as in the tests.
Init == Fresh /\ cap = TEST_CAPACITY

\* A Selector used directly with a buffer of any of the capacities.
SelectorInit == Fresh /\ cap \in Capacities

(* --------------------------- kernel queue ------------------------------ *)
Min(a, b) == IF a < b THEN a ELSE b

\* ffi::Event::new(flags, token) / new_read_event(fd, token): the record the
\* kernel hands back for a socket carries the token stored at registration.
SockEvent(s) == [kind |-> "sock", fd |-> s, token |-> interest[s].token]

\* The record of the wakeup source: eventfd added with data 0 (linux),
\* EVFILT_TIMER with udata 0 (macos).
WakeEvent(i) == [kind |-> "wake", fd |-> i, token |-> WAKE_TOKEN]

\* Event::id
id(e) == e.token

\* What the queue holds ready: armed registrations of readable sockets and
\* every armed wakeup source (an eventfd with counter 1 is always readable,
\* a timer armed with data 0 has expired).
Ready ==
    {SockEvent(s) : s \in {x \in Sockets : interest[x].state = "armed" /\ readable[x]}}
        \cup {WakeEvent(i) : i \in 1..wake}

\* maxevents handed to the wait: the literal 1024 on linux, the buffer's
\* capacity on macos.
MaxEventsArg == IF backend = "linux" THEN EPOLL_MAXEVENTS ELSE cap

Orderings(B) ==
    {f \in [1..Cardinality(B) -> B] : \A i, j \in 1..Cardinality(B) : i # j => f[i] # f[j]}

\* Number of events of socket s with id k in a set of events.
Count(B, s, k) ==
    Cardinality({e \in B : e.kind = "sock" /\ e.fd = s /\ e.token = k})

Range(f) == {f[i] : i \in DOMAIN f}

FiredSockets(B) == {e.fd : e \in {x \in B : x.kind = "sock"}}

AfterFireStaysArmed(s) == interest[s]

\* One-shot: EPOLLONESHOT leaves the descriptor in the interest list,
\* disabled; EV_ONESHOT deletes the knote.
AfterFire(s) ==
    IF backend = "linux" THEN [state |-> "disabled", token |-> 0]
    ELSE NoInterest

\* The wakeup source after it was reported: the eventfd is never read and
\* was added level-triggered, so it stays ready; the zero-period kqueue
\* timer is certain to fire once, later firings are not.
WakeAfter(B) ==
    IF backend = "linux" \/ \A e \in B : e.kind # "wake" THEN {wake} ELSE {0, wake}

(* ---------------------------- Selector --------------------------------- *)
\* Rust's / and % on i32: the quotient is truncated towards zero.
Quot(a, b) == IF a >= 0 THEN a \div b ELSE -((-a) \div b)
Rem(a, b) == a - b * Quot(a, b)

\* linux Selector::select: timeout_ms.unwrap_or(-1), the timeout argument of
\* epoll_wait in milliseconds.
EpollTimeout(tm) == IF tm.some THEN tm.val ELSE -1

\* macos Timespec::from_millis.  v_nsec is given as the kernel reads the
\* field (a C long): the cast to usize keeps the bits of a negative value.
from_millis(milliseconds) ==
    [tv_sec |-> Quot(milliseconds, 1000),
     v_nsec |-> Rem(milliseconds, 1000) * 1000 * 1000]

\* macos kevent(): timeout_ms.map(Timespec::from_millis), handed over as a
\* pointer that is null for None.
KeventTimeout(tm) ==
    IF tm.some THEN [null |-> FALSE, ts |-> from_millis(tm.val)]
    ELSE [null |-> TRUE, ts |-> from_millis(0)]

\* The kernel rejects a timespec with a negative field (EINVAL).
WaitInvalid(tm) ==
    /\ backend = "macos"
    /\ ~KeventTimeout(tm).null
    /\ (KeventTimeout(tm).ts.tv_sec < 0 \/ KeventTimeout(tm).ts.v_nsec < 0)

WaitsForeverAlways(tm) == TRUE

\* The wait has no time limit: epoll_wait with a negative timeout, kevent
\* with a null timeout.
WaitsForever(tm) ==
    IF backend = "linux" THEN EpollTimeout(tm) < 0 ELSE KeventTimeout(tm).null

\* Everything but the direct select call and the buffer's capacity.
pollerVars ==
    <<backend, is_poll_dead, handleVars, kernelVars, events, delivered, retried, ppc, parg, ptimeout,
      presult, pn, pkind, sres, polls, pdeadAtStart, regVars, histVars>>

\* Selector::select(events, tm) is called directly while ready sources are
\* in the queue: events.clear(), then the arguments of the backend wait are
\* built.
SelectCall(tm, ready) ==
    /\ sel.pc \in {"idle", "done"}
    /\ sel' = [pc |-> "wait", timeout |-> tm, ready |-> ready,
               epoll_timeout |-> IF backend = "linux" THEN EpollTimeout(tm) ELSE 0,
               kevent_null |-> backend = "macos" /\ KeventTimeout(tm).null,
               kevent_timeout |-> IF backend = "macos" THEN KeventTimeout(tm).ts
                                  ELSE from_millis(0),
               maxevents |-> MaxEventsArg, res |-> "none", len |-> 0]
    /\ UNCHANGED <<cap, pollerVars>>

\* The direct call ends: sel.res and the length left on the buffer.
SelectEnds(res, len) ==
    /\ sel' = [sel EXCEPT !.pc = "done", !.res = res, !.len = len]
    /\ UNCHANGED <<cap, pollerVars>>

\* The backend wait of the direct call returns n > 0 events and select does
\* set_len(n).  When n is more than the buffer's capacity the kernel has
\* written past the allocation and set_len(n) breaks Vec's contract:
\* undefined behaviour, which may also end the process.
SelectReturnsEvents ==
    /\ sel.pc = "wait"
    /\ ~WaitInvalid(sel.timeout)
    /\ sel.maxevents > 0
    /\ sel.ready > 0
    /\ ~(backend = "linux" /\ cap = 0)
    /\ \/ SelectEnds("ok", Min(sel.ready, sel.maxevents))
       \/ /\ Min(sel.ready, sel.maxevents) > cap
          /\ SelectEnds("crash", 0)

\* The backend wait of the direct call returns 0: the time limit ran out
\* with nothing ready, or kevent was given room for no event.
SelectReturnsNone ==
    /\ sel.pc = "wait"
    /\ ~WaitInvalid(sel.timeout)
    /\ \/ sel.ready = 0 /\ ~WaitsForever(sel.timeout)
       \/ sel.maxevents = 0
    /\ SelectEnds("ok", 0)

\* The backend wait of the direct call fails: EINVAL for a timespec with a
\* negative field, EFAULT when epoll_wait has events to store at the
\* dangling pointer of a buffer without allocation, or EINTR.
SelectReturnsError ==
    /\ sel.pc = "wait"
    /\ \/ WaitInvalid(sel.timeout) /\ SelectEnds("InvalidInput", 0)
       \/ /\ backend = "linux" /\ cap = 0 /\ sel.ready > 0
          /\ SelectEnds("Uncategorized", 0)
       \/ ~WaitInvalid(sel.timeout) /\ SelectEnds("Interrupted", 0)

(* ------------------------------ Poll ----------------------------------- *)
NormalizeTimeoutIdentity(tm) == tm

AfterLoadCleared(flag) == FALSE

\* lib.rs:53, linux.rs:21, macos.rs:23: is_poll_dead.load(SeqCst) reads the
\* flag and stores nothing.
AfterLoad(flag) == flag

\* lib.rs:43
NormalizeTimeout(tm) == IF tm.some /\ tm.val < 0 THEN Some(0) ELSE tm

\* Poll::poll entered: timeout normalised, about to call select.
PollCall(tm) ==
    /\ alive
    /\ ppc = "idle"
    /\ polls < MaxPolls
    /\ ppc' = "select"
    /\ parg' = tm
    /\ ptimeout' = NormalizeTimeout(tm)
    /\ presult' = "none"
    /\ pn' = 0
    /\ pkind' = "none"
    /\ sres' = "none"
    /\ retried' = FALSE
    /\ polls' = polls + 1
    /\ pdeadAtStart' = is_poll_dead
    /\ UNCHANGED <<sel, backend, handleVars, is_poll_dead, kernelVars, cap, events, delivered, regVars, histVars>>

\* linux.rs:80, macos.rs:74: events.clear() sets the length to 0.
Clear(buf) == <<>>

\* linux.rs:82, macos.rs:75: the buffer's allocation after the wait stored
\* the events f in its first slots.  clear() leaves the allocation as it
\* was, so behind the new events it still holds the old ones.
Stored(buf, old, f) == buf \o f \o SubSeq(old, Len(f) + 1, Len(old))

SetLenWhole(mem, n) == mem

\* linux.rs:83, macos.rs:76: events.set_len(n) makes the first n slots of
\* the allocation the buffer's elements.
SetLen(mem, n) == SubSeq(mem, 1, n)

\* Selector::select: events.clear(), the wait returns n > 0 events,
\* set_len(n).
SelectEvents ==
    /\ ppc = "select"
    /\ ~WaitInvalid(ptimeout)
    /\ Ready # {}
    /\ MaxEventsArg > 0
    /\ \E B \in SUBSET Ready :
        /\ Cardinality(B) = Min(Cardinality(Ready), MaxEventsArg)
        /\ \E f \in Orderings(B) :
            /\ events' = SetLen(Stored(Clear(events), events, f), Len(f))
            /\ delivered' = f
        /\ interest' = [s \in Sockets |->
                          IF s \in FiredSockets(B) THEN AfterFire(s) ELSE interest[s]]
        /\ wake' \in WakeAfter(B)
        /\ fired' = [s \in Sockets |->
                          IF s \in FiredSockets(B) THEN fired[s] + 1 ELSE fired[s]]
        /\ fires' = [s \in Sockets |-> [k \in Tokens |->
                          fires[s][k] + Count(B, s, k)]]
    /\ ppc' = "check"
    /\ sres' = "ok"
    /\ UNCHANGED <<sel, backend, handleVars, is_poll_dead, readable, cap, parg, retried, pdeadAtStart,
                   ptimeout, presult, pn, pkind, polls, regVars, casWins, injected,
                   regs, oks>>

\* Selector::select: the wait returns 0 (the timeout expired with nothing
\* ready, or the caller's buffer has no room), set_len(0).
SelectTimeout ==
    /\ ppc = "select"
    /\ ~WaitInvalid(ptimeout)
    /\ \/ ~WaitsForever(ptimeout) /\ Ready = {}
       \/ MaxEventsArg = 0
    /\ events' = SetLen(Stored(Clear(events), events, <<>>), 0)
    /\ delivered' = <<>>
    /\ ppc' = "check"
    /\ sres' = "ok"
    /\ UNCHANGED <<sel, backend, handleVars, is_poll_dead, kernelVars, cap, parg, retried, pdeadAtStart,
                   ptimeout, presult, pn, pkind, polls, regVars, histVars>>

RetriesNever(kind) == FALSE

RetriesAlways(kind) == TRUE

\* lib.rs:48: the error kinds on which poll calls select again.
Retries(kind) == kind = "Interrupted"

\* lib.rs:49: Err(e) => return Err(e)
Propagated(kind) == kind

\* Selector::select fails with an error of the given kind after
\* events.clear(); Poll::poll calls select again or returns the error.
SelectFails(kind) ==
    /\ ppc = "select"
    /\ events' = Clear(events)
    /\ delivered' = <<>>
    /\ sres' = kind
    /\ IF Retries(kind)
         THEN /\ retried' = TRUE
              /\ UNCHANGED <<ppc, ptimeout, presult, pkind>>
         ELSE /\ presult' = "oserr"
              /\ UNCHANGED retried
              /\ pkind' = Propagated(kind)
              /\ ptimeout' = None
              /\ ppc' = "idle"
    /\ UNCHANGED <<sel, backend, handleVars, is_poll_dead, kernelVars, cap, parg, pdeadAtStart, pn,
                   polls, regVars, histVars>>

\* The wait is interrupted by a signal (EINTR).
SelectInterrupted == SelectFails("Interrupted")

\* The wait fails with another OS error.
SelectError == \E kind \in ErrorKinds \ {"Interrupted"} : SelectFails(kind)

PollResultOkIfEvents == IF is_poll_dead /\ events = <<>> THEN "closed" ELSE "ok"

PollResultAlwaysOk == "ok"

PollResultOkOnTimeout == IF is_poll_dead /\ events # <<>> THEN "closed" ELSE "ok"

\* lib.rs:53-56: the flag is loaded after the wait; closed wins over Ok.
PollResult == IF is_poll_dead THEN "closed" ELSE "ok"

PollCheck ==
    /\ ppc = "check"
    /\ presult' = PollResult
    /\ pn' = IF PollResult = "ok" THEN Len(events) ELSE 0
    /\ pkind' = IF PollResult = "ok" THEN "none" ELSE "Interrupted"
    /\ ptimeout' = None
    /\ oks' = [s \in Sockets |-> [k \in Tokens |->
                 IF PollResult = "ok" THEN oks[s][k] + Count(Range(events), s, k)
                 ELSE oks[s][k]]]
    /\ ppc' = "idle"
    /\ is_poll_dead' = AfterLoad(is_poll_dead)
    /\ UNCHANGED <<sel, backend, handleVars, kernelVars, cap, parg, retried, pdeadAtStart, events,
                   delivered, sres, polls, regVars, casWins, injected, fired, regs, fires>>

\* Poll::registrator: the owner of the Poll hands thread t a Registrator
\* (the threads are interchangeable: they are served in order).
Mint(t) ==
    /\ alive
    /\ ppc = "idle"
    /\ ~hasReg[t]
    /\ \A u \in Threads : u < t => hasReg[u]
    /\ hasReg' = [hasReg EXCEPT ![t] = TRUE]
    /\ UNCHANGED <<sel, backend, handleVars, is_poll_dead, kernelVars, pollVars,
                   rpc, rsock, rtok, rint, rdead, rrearm, calls, last, histVars>>

\* Data arrives on a socket; nothing in the model reads it.
DataArrives(s) ==
    /\ ~readable[s]
    /\ readable' = [readable EXCEPT ![s] = TRUE]
    /\ UNCHANGED <<sel, backend, handleVars, is_poll_dead, interest, wake, pollVars, regVars, histVars>>

(* --------------------------- Registrator ------------------------------- *)
\* Thread t's call returns res (a panic ends the thread).
Ret(t, op, i, res, dead, rearm, submitted, won) ==
    /\ last' = [op |-> op, interests |-> i, res |-> res, dead |-> dead,
                submitted |-> submitted, won |-> won, rearm |-> rearm]
    /\ rdead' = [rdead EXCEPT ![t] = FALSE]
    /\ rrearm' = [rrearm EXCEPT ![t] = FALSE]
    /\ rpc' = [rpc EXCEPT ![t] = IF res = "panic" THEN "panicked" ELSE "idle"]
    /\ rsock' = [rsock EXCEPT ![t] = 1]
    /\ rtok' = [rtok EXCEPT ![t] = 0]
    /\ rint' = [rint EXCEPT ![t] = READABLE]

RegisterTailOk(i) == "ok"

\* What register returns once the READABLE part is done: unimplemented!()
\* for WRITABLE, else Ok(()).
RegisterTail(i) == IF is_writable(i) THEN "panic" ELSE "ok"

\* The socket's registration has fired and the poll that took the event
\* has returned it with Ok.
Delivered(s) == fired[s] = 1 /\ ppc # "check" /\ ~is_poll_dead

\* A READABLE register for a socket whose event has been delivered.
Rearms(s, i) == Delivered(s) /\ i = READABLE

RegisterRejectsNever == FALSE

\* register: is_poll_dead.load(SeqCst)
RegisterRejects == is_poll_dead

\* register(stream, token, interests) is called and loads the flag, its
\* first access to shared state.
RegisterCall(t, s, k, i) ==
    /\ hasReg[t]
    /\ rpc[t] = "idle"
    /\ calls < MaxCalls
    /\ calls' = calls + 1
    /\ IF RegisterRejects
         THEN Ret(t, "register", i, "closed", is_poll_dead, Rearms(s, i), FALSE, FALSE)
         ELSE IF is_readable(i)
                THEN /\ rdead' = [rdead EXCEPT ![t] = is_poll_dead]
                     /\ rrearm' = [rrearm EXCEPT ![t] = Rearms(s, i)]
                     /\ rpc' = [rpc EXCEPT ![t] = "reg_ctl"]
                     /\ rsock' = [rsock EXCEPT ![t] = s]
                     /\ rtok' = [rtok EXCEPT ![t] = k]
                     /\ rint' = [rint EXCEPT ![t] = i]
                     /\ UNCHANGED last
                ELSE Ret(t, "register", i, RegisterTail(i), is_poll_dead, Rearms(s, i),
                         FALSE, FALSE)
    /\ is_poll_dead' = AfterLoad(is_poll_dead)
    /\ UNCHANGED <<sel, backend, handleVars, kernelVars, pollVars, hasReg, histVars>>

\* ffi::Event::new(flags, id) stores the token in the event's data field
\* (epoll_data / udata), which Event::id reads back.
EpollDataDropped(k) == 0

EpollData(k) == k

\* EPOLL_CTL_ADD refuses a descriptor that is already in the interest list
\* (EEXIST), whether armed or disabled by EPOLLONESHOT; kevent's EV_ADD adds
\* the knote or overwrites the one that is there.
AddRefused(s) == backend = "linux" /\ interest[s].state # "none"

\* A syscall on the queue handle can succeed only while the handle is open;
\* on a closed descriptor it fails (EBADF).
HandleOpen == alive

\* register: epoll_ctl(ADD, EPOLLIN | EPOLLONESHOT, token) /
\* kevent([new_read_event(fd, token)]), then the WRITABLE check.
RegisterSubmit(t) ==
    /\ rpc[t] = "reg_ctl"
    /\ \/ /\ HandleOpen
          /\ AddRefused(rsock[t])
          /\ Ret(t, "register", rint[t], "eexist", rdead[t], rrearm[t], FALSE, FALSE)
          /\ UNCHANGED <<interest, fired, regs>>
       \/ /\ HandleOpen
          /\ ~AddRefused(rsock[t])
          /\ interest' = [interest EXCEPT ![rsock[t]] =
                              [state |-> "armed", token |-> EpollData(rtok[t])]]
          /\ fired' = [fired EXCEPT ![rsock[t]] = 0]
          /\ regs' = [regs EXCEPT ![rsock[t]][rtok[t]] = regs[rsock[t]][rtok[t]] + 1]
          /\ Ret(t, "register", rint[t], RegisterTail(rint[t]), rdead[t], rrearm[t], TRUE, FALSE)
       \/ /\ ~HandleOpen \/ ~AddRefused(rsock[t])
          /\ Ret(t, "register", rint[t], "oserr", rdead[t], rrearm[t], FALSE, FALSE)
          /\ UNCHANGED <<interest, fired, regs>>
    /\ UNCHANGED <<sel, backend, handleVars, is_poll_dead, wake, readable, pollVars, hasReg, calls,
                   casWins, injected, fires, oks>>

\* compare_and_swap(false, true, SeqCst): the value stored, and whether the
\* caller saw false (the returned previous value).
CasStoredOld(old) == old

CasStoredToggle(old) == ~old

CasStored(old) == TRUE

CasWonAlways(old) == TRUE

CasWon(old) == ~old

\* close_loop() is called and does the compare-and-swap on the flag, its
\* first access to shared state.
CloseCall(t) ==
    /\ hasReg[t]
    /\ rpc[t] = "idle"
    /\ calls < MaxCalls
    /\ calls' = calls + 1
    /\ is_poll_dead' = CasStored(is_poll_dead)
    /\ IF CasWon(is_poll_dead)
         THEN /\ rpc' = [rpc EXCEPT ![t] =
                            IF backend = "linux" THEN "cl_eventfd" ELSE "cl_ctl"]
              /\ casWins' = casWins + 1
              /\ rdead' = [rdead EXCEPT ![t] = is_poll_dead]
              /\ UNCHANGED <<rsock, rtok, rint, rrearm, last>>
         ELSE /\ Ret(t, "close_loop", 0, "closed", is_poll_dead, FALSE, FALSE, FALSE)
              /\ UNCHANGED casWins
    /\ UNCHANGED <<sel, backend, handleVars, kernelVars, pollVars, hasReg,
                   injected, fired, regs, fires, oks>>

FlagRolledBack(flag) == FALSE

\* linux.rs:58,60, macos.rs:56: the `?` returns the error of the failed step
\* at once; nothing is stored to the flag on that path.
FlagAfterFailedStep(flag) == flag

\* close_loop on linux: eventfd(1, 0)?
CloseEventfd(t) ==
    /\ rpc[t] = "cl_eventfd"
    /\ \/ /\ rpc' = [rpc EXCEPT ![t] = "cl_ctl"]
          /\ UNCHANGED <<rsock, rtok, rint, rdead, rrearm, last>>
          /\ UNCHANGED is_poll_dead
       \/ /\ Ret(t, "close_loop", 0, "oserr", rdead[t], FALSE, FALSE, TRUE)
          /\ is_poll_dead' = FlagAfterFailedStep(is_poll_dead)
    /\ UNCHANGED <<sel, backend, handleVars, kernelVars, pollVars, hasReg, calls, histVars>>

\* The queue after the wakeup source was added: a new eventfd each time on
\* linux, the one timer with ident 0 on macos.
WakeAdded == IF backend = "linux" THEN wake + 1 ELSE 1

\* close_loop: epoll_ctl(ADD, wake_fd, EPOLLIN) / kevent([new_wakeup_event()]).
CloseInject(t) ==
    /\ rpc[t] = "cl_ctl"
    /\ \/ /\ HandleOpen
          /\ wake' = WakeAdded
          /\ injected' = injected + 1
          /\ Ret(t, "close_loop", 0, "ok", rdead[t], FALSE, TRUE, TRUE)
          /\ UNCHANGED is_poll_dead
       \/ /\ Ret(t, "close_loop", 0, "oserr", rdead[t], FALSE, FALSE, TRUE)
          /\ is_poll_dead' = FlagAfterFailedStep(is_poll_dead)
          /\ UNCHANGED <<wake, injected>>
    /\ UNCHANGED <<sel, backend, handleVars, interest, readable, pollVars, hasReg,
                   calls, casWins, fired, regs, fires, oks>>

(* ------------------------------ drops ---------------------------------- *)
\* impl Drop for Selector, run when the owner drops the Poll: close(fd),
\* once.  (poll borrows the Poll mutably, so it is not running.)
DropPoll ==
    /\ alive
    /\ ppc = "idle"
    /\ alive' = FALSE
    /\ closes' = closes + 1
    /\ UNCHANGED <<sel, backend, is_poll_dead, kernelVars, pollVars, regVars, histVars>>

RegistratorDropClosesHandle == TRUE

\* Registrator has no Drop impl: dropping it drops the RawFd copy (an
\* integer) and the Arc, and makes no close() call.
RegistratorDropCloses == FALSE

\* A thread drops its Registrator (the threads are interchangeable: the one
\* served last drops first).
DropRegistrator(t) ==
    /\ hasReg[t]
    /\ rpc[t] = "idle"
    /\ \A u \in Threads : u > t => ~hasReg[u]
    /\ hasReg' = [hasReg EXCEPT ![t] = FALSE]
    /\ closes' = IF RegistratorDropCloses THEN closes + 1 ELSE closes
    /\ UNCHANGED <<sel, backend, is_poll_dead, alive, kernelVars, pollVars,
                   rpc, rsock, rtok, rint, rdead, rrearm, calls, last, histVars>>

(* ------------------------------ system --------------------------------- *)
PollerStep ==
    \/ SelectEvents
    \/ SelectTimeout
    \/ PollCheck

ThreadStep(t) ==
    \/ RegisterSubmit(t)
    \/ CloseEventfd(t)
    \/ CloseInject(t)

Next ==
    \/ \E tm \in TimeoutArgs : PollCall(tm)
    \/ SelectEvents
    \/ SelectTimeout
    \/ SelectInterrupted
    \/ SelectError
    \/ PollCheck
    \/ \E t \in Threads : Mint(t)
    \/ \E s \in Sockets : DataArrives(s)
    \/ \E t \in Threads, s \in Sockets, k \in Tokens, i \in InterestArgs :
          RegisterCall(t, s, k, i)
    \/ \E t \in Threads : RegisterSubmit(t)
    \/ \E t \in Threads : CloseCall(t)
    \/ \E t \in Threads : CloseEventfd(t)
    \/ \E t \in Threads : CloseInject(t)
    \/ DropPoll
    \/ \E t \in Threads : DropRegistrator(t)

Spec == Init /\ [][Next]_vars

\* A Selector used directly (Selector::new and select are public).
SelectorNext ==
    \/ \E tm \in SelectTimeoutArgs, ready \in 0..MaxReady : SelectCall(tm, ready)
    \/ SelectReturnsEvents
    \/ SelectReturnsNone
    \/ SelectReturnsError

SelectorSpec == SelectorInit /\ [][SelectorNext]_vars

\* Threads are scheduled: a thread inside a call takes its next step, and a
\* wait whose queue holds a ready event (or whose timeout ran out) returns.
\* Nothing forces new calls, arriving data, signals or syscall failures.
FairSpec ==
    /\ Spec
    /\ WF_vars(PollerStep)
    /\ \A t \in Threads : WF_vars(ThreadStep(t))

TypeOK ==
    /\ is_poll_dead \in BOOLEAN
    /\ ppc \in {"idle", "select", "check"}
    /\ presult \in {"none", "ok", "closed", "oserr"}
    /\ pkind \in {"none"} \cup ErrorKinds
    /\ sres \in {"none", "ok"} \cup ErrorKinds
    /\ last.res \in {"none", "ok", "closed", "oserr", "eexist", "panic"}
    /\ \A t \in Threads :
          rpc[t] \in {"idle", "reg_ctl", "cl_eventfd", "cl_ctl", "panicked"}

(* ============================ properties =============================== *)
HasWake == \E i \in 1..Len(events) : events[i].kind = "wake"
HasSock == \E i \in 1..Len(events) : events[i].kind = "sock"
InClose(t) == rpc[t] \in {"cl_eventfd", "cl_ctl"}

\* C1: a poll(events, None) that was entered before shutdown and is blocked
\* when another thread's close_loop sets the flag eventually returns, and
\* returns the closed error; this in every interleaving, the one where the
\* wakeup injection of close_loop fails included.  (A failure of the wait
\* syscall itself, which poll propagates, is left out of the claim.)
C1_CrossThreadWakeup ==
    (ppc = "select" /\ ~ptimeout.some /\ ~pdeadAtStart /\ is_poll_dead)
        ~> (ppc = "idle" /\ presult \in {"closed", "oserr"})

\* C2: over all close_loop calls of all threads at most one sees the flag
\* go from false to true, only such a call can return Ok, and every call that
\* did not see the transition returns the already-closed error.
C2_SingleWinner ==
    /\ casWins <= 1
    /\ Cardinality({t \in Threads : InClose(t)}) <= 1
    /\ last.op = "close_loop" =>
          /\ last.res = "ok" => last.won
          /\ ~last.won => last.res = "closed"
          /\ last.won => (casWins = 1 /\ \A t \in Threads : ~InClose(t))

\* a close_loop call has lost while the winner is still inside its own call
C2_Witness ==
    /\ last.op = "close_loop" /\ last.res = "closed"
    /\ \E t \in Threads : InClose(t)

\* C3: a register call that starts when a close_loop has already set the
\* flag returns the closed error and submits nothing to the kernel queue.
C3_PostCloseRegister ==
    /\ \A t \in Threads : rpc[t] = "reg_ctl" => ~rdead[t]
    /\ (last.op = "register" /\ last.dead) =>
          (last.res = "closed" /\ ~last.submitted)

C3_Witness ==
    /\ last.op = "register" /\ last.dead /\ last.res = "closed"
    /\ injected = 1

\* C4: a close_loop call that starts after the flag was set fails with the
\* already-closed error without winning the flag, and at most one wakeup
\* event is ever injected into the queue.
C4_SingleUseShutdown ==
    /\ injected <= 1
    /\ wake <= 1
    /\ \A t \in Threads : InClose(t) => ~rdead[t]
    /\ (last.op = "close_loop" /\ last.dead) =>
          (last.res = "closed" /\ ~last.won /\ ~last.submitted)

C4_Witness ==
    /\ injected = 1
    /\ last.op = "close_loop" /\ last.dead /\ last.res = "closed"

\* C5: the shutdown flag is false after Poll::new and no step of any call
\* takes it from true back to false.
C5_FlagMonotonic == ~is_poll_dead /\ [][is_poll_dead => is_poll_dead']_vars

C5_Witness ==
    /\ is_poll_dead
    /\ presult = "closed"
    /\ last.dead /\ last.res = "closed"

\* C6: when poll loads the flag after a successful wait and finds it true,
\* it returns the closed error and no Ok(n), whatever the wait delivered.
C6_ShutdownArbitration ==
    [][(ppc = "check" /\ ppc' = "idle" /\ is_poll_dead)
          => (presult' = "closed" /\ pn' = 0)]_vars

C6_Witness == ppc = "idle" /\ presult = "closed" /\ HasSock /\ ~HasWake

\* C7: no poll returns Ok with a batch that contains the wakeup event.
C7_WakeupNotSurfaced == presult = "ok" => ~HasWake

C7_Witness == ppc = "idle" /\ presult = "closed" /\ HasWake

\* C8: one successful register yields at most one event for its socket,
\* however often poll is called afterwards and although the socket stays
\* readable.
C8_OneShot == \A s \in Sockets : fired[s] <= 1

C8_Witness ==
    /\ \E s \in Sockets : fired[s] = 1 /\ readable[s]
    /\ ppc = "idle" /\ presult = "ok" /\ events = <<>> /\ polls >= 2

C10_Rearm ==
    (last.op = "register" /\ last.rearm /\ last.res # "oserr") =>
        (last.res = "ok" /\ last.submitted)

\* C11: a register call running concurrently with a close_loop call of
\* another thread never deadlocks: each of the two calls returns, and a
\* poll(events, None) that was entered before shutdown and is blocked
\* meanwhile returns the closed error.  (A failure of the wait syscall
\* itself, which poll propagates, is left out of the claim.)
C11_RaceNoDeadlock ==
    /\ \A t \in Threads :
          (rpc[t] \in {"reg_ctl", "cl_eventfd", "cl_ctl"})
              ~> (rpc[t] \in {"idle", "panicked"})
    /\ (/\ ppc = "select" /\ ~ptimeout.some /\ ~pdeadAtStart
        /\ \E t, u \in Threads : t # u /\ rpc[t] = "reg_ctl" /\ InClose(u))
           ~> (ppc = "idle" /\ presult \in {"closed", "oserr"})

C13_RetryPolicy ==
    /\ ppc = "select" => sres \in {"none", "Interrupted"}
    /\ ppc = "check" => sres = "ok"
    /\ (ppc = "idle" /\ presult = "oserr") =>
          (sres \in ErrorKinds \ {"Interrupted"} /\ pkind = sres)
    /\ (ppc = "idle" /\ presult \in {"ok", "closed"}) => sres = "ok"

C13_Witness ==
    /\ ppc = "idle" /\ presult = "oserr"
    /\ sres = "InvalidInput" /\ pkind = "InvalidInput"

\* C14: a poll(events, Some(t)) with t >= 0, waiting while nothing
\* registered is ready and shutdown is not requested, terminates; a wait that
\* ends with nothing ready leaves the buffer empty, and poll then returns
\* Ok(0) when the flag is not set.
C14_TimeoutExpiry ==
    /\ (ppc = "select" /\ parg.some /\ parg.val >= 0 /\ Ready = {} /\ ~is_poll_dead)
          ~> (ppc = "idle")
    /\ [][(ppc = "select" /\ ppc' = "check" /\ Ready = {}) => events' = <<>>]_vars
    /\ [][(ppc = "check" /\ ppc' = "idle" /\ events = <<>> /\ ~is_poll_dead)
             => (presult' = "ok" /\ pn' = 0 /\ events' = <<>>)]_vars

\* a poll with a timeout has returned Ok(0) while a socket was registered
\* and not readable
C14_Witness ==
    /\ ppc = "idle" /\ parg.some /\ parg.val >= 0
    /\ presult = "ok" /\ pn = 0 /\ events = <<>>
    /\ ~is_poll_dead
    /\ \E s \in Sockets : interest[s].state = "armed" /\ ~readable[s]

\* C15: a register call with the WRITABLE bit in its interest set, started
\* while the flag is not set, never returns Ok(()): it ends in the panic of
\* unimplemented!().
C15_WritableFailsLoudly ==
    (last.op = "register" /\ is_writable(last.interests) /\ ~last.dead) =>
        last.res = "panic"

C15_Witness ==
    /\ last.op = "register" /\ last.interests = WRITABLE /\ ~last.dead
    /\ last.res = "panic"
    /\ \E t \in Threads : rpc[t] = "panicked"

\* C16: the queue handle is closed once, by the drop of the Selector, and by
\* nothing else: while the Poll exists no close() call has been made on the
\* handle, whatever register, close_loop, registrator and poll calls and
\* Registrator drops have happened, and after its drop exactly one has.
C16_HandleClosedOnce ==
    /\ closes = (IF alive THEN 0 ELSE 1)
    /\ [][closes' # closes => (alive /\ ~alive' /\ ppc = "idle")]_vars

\* the Poll was dropped after calls of every kind, with Registrators left
C16_Witness ==
    /\ ~alive /\ closes = 1
    /\ polls >= 1 /\ last.op # "none"
    /\ \E t \in Threads : hasReg[t]
    /\ \E t \in Threads : ~hasReg[t]

\* C17: whatever timeout Selector::select is called with, what it hands to
\* the backend wait is the wait-indefinitely indicator (-1 / a null
\* timespec) for None and a non-negative duration for Some(n): a negative
\* Some(n) is not passed through as a negative value.
C17_SelectTimeoutNormalized ==
    sel.pc # "idle" =>
        IF backend = "linux"
        THEN IF sel.timeout.some THEN sel.epoll_timeout >= 0
             ELSE sel.epoll_timeout = -1
        ELSE IF sel.timeout.some
             THEN /\ ~sel.kevent_null
                  /\ sel.kevent_timeout.tv_sec >= 0
                  /\ sel.kevent_timeout.v_nsec >= 0
             ELSE sel.kevent_null

\* C18: poll(events, Some(n)) with n < 0 calls select with Some(0),
\* Some(n) with n >= 0 and None are handed on unchanged; so a poll called
\* with Some(n) never waits without a time limit.
C18_PollTimeoutClamped ==
    ppc = "select" =>
        /\ (parg.some /\ parg.val < 0) => ptimeout = Some(0)
        /\ (parg.some /\ parg.val >= 0) => ptimeout = parg
        /\ ~parg.some => ptimeout = None
        /\ parg.some => ~WaitsForever(ptimeout)

\* poll(events, Some(-1)) has returned Ok(0) from a wait with nothing ready
C18_Witness ==
    /\ ppc = "idle" /\ parg = Some(-1)
    /\ presult = "ok" /\ pn = 0 /\ events = <<>>

\* C19: the number of events select asks the backend wait for is the
\* capacity of the caller's buffer, and the length select sets on the buffer
\* after a successful wait is at most that capacity, for every capacity and
\* every number of ready sources.
C19_BufferBound ==
    /\ sel.pc # "idle" => sel.maxevents = cap
    /\ (sel.pc = "done" /\ sel.res = "ok") => sel.len <= cap

\* C20: whenever poll has returned Ok(n), n is the length of the events
\* buffer and the number of events the last backend wait delivered (0 when
\* the wait timed out), and the buffer holds exactly the events of that
\* wait, in the stored order: nothing an earlier poll left in the buffer
\* is still in it.
C20_BatchContents ==
    (ppc = "idle" /\ presult = "ok")
        => /\ pn = Len(events)
           /\ pn = Len(delivered)
           /\ events = delivered

\* The second poll has returned Ok(0) with an empty buffer after an earlier
\* poll had returned an event in the same buffer.
C20_Witness ==
    /\ ppc = "idle" /\ presult = "ok" /\ polls = 2
    /\ pn = 0 /\ events = <<>> /\ delivered = <<>>
    /\ \E s \in Sockets, k \in Tokens : oks[s][k] >= 1

\* C21: poll returns an error of the Interrupted kind only while the
\* shutdown flag is true, as its closed error: an Interrupted error of the
\* wait makes poll call select again and is never the error poll returns.
C21_InterruptedMeansShutdown ==
    /\ (ppc = "idle" /\ pkind = "Interrupted") => (is_poll_dead /\ presult = "closed")
    /\ (ppc = "idle" /\ presult = "oserr") => pkind # "Interrupted"
    /\ (ppc = "select" /\ sres = "Interrupted") => retried

\* A poll whose wait was interrupted and called again has returned the
\* Interrupted-kind closed error after close_loop set the flag.
C21_Witness ==
    /\ ppc = "idle" /\ retried /\ pkind = "Interrupted" /\ presult = "closed"
    /\ is_poll_dead /\ ~pdeadAtStart

\* C22: close_loop does not undo the flag when its injection fails.  Once
\* the one call that won the false-to-true transition has returned without
\* a wakeup event injected, the flag is true and the queue holds no wakeup
\* source; while the flag is true no close_loop call wins the transition
\* or injects unless it is the winner still on its way, and a close_loop
\* call made then returns the already-closed error.
C22_NoRollback ==
    /\ []((casWins >= 1 /\ injected = 0 /\ \A t \in Threads : ~InClose(t))
            => (is_poll_dead /\ wake = 0))
    /\ []((last.op = "close_loop" /\ last.res = "oserr")
            => (last.won /\ ~last.submitted /\ is_poll_dead))
    /\ [][is_poll_dead
            => /\ casWins' = casWins
               /\ is_poll_dead'
               /\ injected' # injected => \E t \in Threads : rpc[t] = "cl_ctl"
               /\ (calls' = calls + 1 /\ last'.op = "close_loop")
                     => (last'.res = "closed" /\ injected' = injected /\ wake' = wake)]_vars

\* After the winning close_loop failed in its injection, a later close_loop
\* call has returned the already-closed error; the flag is true and no
\* wakeup source is in the queue.
C22_Witness ==
    /\ casWins = 1 /\ injected = 0 /\ wake = 0 /\ is_poll_dead
    /\ \A t \in Threads : ~InClose(t)
    /\ last.op = "close_loop" /\ last.res = "closed" /\ last.dead /\ ~last.won

\* C23: only close_loop writes the shutdown flag.  The flag changes in no
\* step but the compare-and-swap of a close_loop call, from false to true;
\* every step of poll, of register and of registrator, returning ok or an
\* error, leaves it as it was.
C23_FlagWrittenByCloseLoopOnly ==
    /\ [][is_poll_dead' # is_poll_dead
            => /\ ~is_poll_dead /\ is_poll_dead'
               /\ casWins' = casWins + 1
               /\ \E t \in Threads : rpc[t] = "idle" /\ InClose(t)']_vars
    /\ [][(ppc' # ppc \/ polls' # polls \/ presult' # presult)
            => is_poll_dead' = is_poll_dead]_vars
    /\ [][hasReg' # hasReg => is_poll_dead' = is_poll_dead]_vars
    /\ [][(\/ \E t \in Threads : rpc[t] = "reg_ctl" /\ rpc'[t] # "reg_ctl"
           \/ \E t \in Threads : rpc[t] # rpc'[t] /\ rpc'[t] \in {"reg_ctl", "panicked"}
           \/ calls' = calls + 1 /\ casWins' = casWins)
            => is_poll_dead' = is_poll_dead]_vars

\* With the flag true, a poll has returned the closed error and a register
\* has failed with it, and the flag is still true.
C23_Witness ==
    /\ is_poll_dead /\ casWins = 1
    /\ ppc = "idle" /\ presult = "closed"
    /\ last.op = "register" /\ last.res = "closed" /\ last.dead

====
